---- MODULE Spec2Model ----
(***************************************************************************)
(* A model of job.py, the fake-job detector: the two-page session flow     *)
(* (user details form, then job URL analysis), the page fetcher and        *)
(* job-page keyword gate is_valid_job_url, and the content extractor       *)
(* extract_job_text.                                                       *)
(*                                                                         *)
(* A text is a sequence of one-character strings, so that joining,         *)
(* stripping, lower-casing, slicing and substring search are computed      *)
(* character by character, as Python computes them.  A parsed document     *)
(* (soup) is the sequence of its elements in document order; an element    *)
(* carries its tag name, its class tokens, its id and name attributes,     *)
(* its content attribute and its one text node.                            *)
(***************************************************************************)
EXTENDS Integers, Sequences, FiniteSets, TLC

VARIABLES
    page,        \* st.session_state.page
    user_data,   \* st.session_state.user_data, a dict: sequence of <<key, value>>
    ev,          \* the widget input of the last script run
    out,         \* what the last script run displayed, in order
    calls,       \* the components the last script run invoked, in order
    soup,        \* the document handed to extract_job_text (or NoSoup)
    ext,         \* the locals of the last extract_job_text call at its return
    pred         \* the last script run's call of the classifier and its answer

vars == <<page, user_data, ev, out, calls, soup, ext, pred>>

----------------------------------------------------------------------------
(* Bounds of the model. *)

\* Longest document (number of elements) the environment serves.
MaxElems == 2

----------------------------------------------------------------------------
(* Program constants. *)

\* final_text[:3000]
MaxTextLen == 3000
\* len(job_text) < 50
MinContentLen == 50
\* res.status_code != 200
StatusOK == 200

\* Python's None, and an attribute an element does not carry.
None == "<None>"

----------------------------------------------------------------------------
(* Text primitives (str methods). *)

Whitespace == {" ", "\t", "\n"}

UpperCase == <<"A", "B", "C", "D", "E", "F", "G", "H", "I", "J", "K", "L", "M", "N", "O", "P", "Q", "R", "S", "T", "U", "V", "W", "X", "Y", "Z">>
LowerCase == <<"a", "b", "c", "d", "e", "f", "g", "h", "i", "j", "k", "l", "m", "n", "o", "p", "q", "r", "s", "t", "u", "v", "w", "x", "y", "z">>

ToLower == [c \in {UpperCase[i] : i \in DOMAIN UpperCase} |->
               LowerCase[CHOOSE i \in DOMAIN UpperCase : UpperCase[i] = c]]

\* str.lower()
lower(s) == [i \in 1..Len(s) |-> IF s[i] \in DOMAIN ToLower THEN ToLower[s[i]] ELSE s[i]]

RECURSIVE FirstNonSpace(_, _)
FirstNonSpace(s, i) ==
    IF i > Len(s) THEN i
    ELSE IF s[i] \in Whitespace THEN FirstNonSpace(s, i + 1) ELSE i

RECURSIVE LastNonSpace(_, _)
LastNonSpace(s, i) ==
    IF i < 1 THEN i
    ELSE IF s[i] \in Whitespace THEN LastNonSpace(s, i - 1) ELSE i

\* str.strip()
strip(s) == SubSeq(s, FirstNonSpace(s, 1), LastNonSpace(s, Len(s)))

\* keyword in text
Contains(text, keyword) ==
    \E i \in 1..(Len(text) - Len(keyword) + 1) :
        \A j \in 1..Len(keyword) : text[i + j - 1] = keyword[j]

\* any(keyword in text for keyword in keywords)
AnyIn(text, keywords) == \E k \in DOMAIN keywords : Contains(text, keywords[k])

RECURSIVE join(_, _)
\* sep.join(parts)
join(sep, parts) ==
    IF parts = <<>> THEN <<>>
    ELSE IF Len(parts) = 1 THEN parts[1]
    ELSE parts[1] \o sep \o join(sep, Tail(parts))

\* text[:n]
Slice(text, n) == SubSeq(text, 1, IF Len(text) < n THEN Len(text) ELSE n)

----------------------------------------------------------------------------
(* Documents. *)

NoSoup == <<[tag |-> None, class |-> {}, id |-> None, name |-> None,
             hasContent |-> FALSE, content |-> <<>>, text |-> <<>>]>>

Elem(tag, class, id, text) ==
    [tag |-> tag, class |-> class, id |-> id, name |-> None,
     hasContent |-> FALSE, content |-> <<>>, text |-> text]

Meta(name, hasContent, content) ==
    [tag |-> "meta", class |-> {}, id |-> None, name |-> name,
     hasContent |-> hasContent, content |-> content, text |-> <<>>]

\* Tag.get_text(strip=True) of an element with one text node
get_text(el) == strip(el.text)

\* soup.get_text(separator=' ', strip=True)
soup_get_text(doc) ==
    LET nodes == SelectSeq([i \in DOMAIN doc |-> strip(doc[i].text)],
                           LAMBDA t : t # <<>>)
    IN  join(<<" ">>, nodes)

\* A keyword argument of find(): None selects elements without the attribute.
AttrMatches(value, against) ==
    IF against = None THEN value = None ELSE value = against

\* class_ is multi-valued: any token may match; None selects elements without class.
ClassMatches(tokens, against) ==
    IF against = None THEN tokens = {} ELSE against \in tokens

RECURSIVE FirstTrue(_, _)
\* Index of the first TRUE of a sequence of booleans from i on, 0 when there is none.
FirstTrue(hits, i) ==
    IF i > Len(hits) THEN 0
    ELSE IF hits[i] THEN i ELSE FirstTrue(hits, i + 1)

\* soup.find(tag, class_=class_, id=id): index of the first match, 0 for None
find(doc, tag, class_, id) ==
    FirstTrue([i \in DOMAIN doc |-> /\ doc[i].tag = tag
                                    /\ ClassMatches(doc[i].class, class_)
                                    /\ AttrMatches(doc[i].id, id)], 1)

\* soup.find(tag, attrs={"name": name})
find_attrs(doc, tag, name) ==
    FirstTrue([i \in DOMAIN doc |-> doc[i].tag = tag /\ doc[i].name = name], 1)

\* soup.find_all(tags)
find_all(doc, tags) == SelectSeq(doc, LAMBDA el : el.tag \in tags)

----------------------------------------------------------------------------
(* extract_job_text *)

selectors == <<
    [tag |-> "div",     class |-> "jobDescriptionText", id |-> None,         attr |-> None],
    [tag |-> "div",     class |-> "description",        id |-> None,         attr |-> None],
    [tag |-> "section", class |-> "job-desc",           id |-> None,         attr |-> None],
    [tag |-> "div",     class |-> None,                 id |-> "jobDetails", attr |-> None],
    [tag |-> "meta",    class |-> None,                 id |-> None,         attr |-> "description"] >>

remote_keywords == << <<"r", "e", "m", "o", "t", "e">>, <<"w", "o", "r", "k", " ", "f", "r", "o", "m", " ", "h", "o", "m", "e">>, <<"h", "y", "b", "r", "i", "d">>, <<"t", "e", "l", "e", "c", "o", "m", "m", "u", "t", "e">> >>

benefits_keywords == << <<"i", "n", "s", "u", "r", "a", "n", "c", "e">>, <<"h", "e", "a", "l", "t", "h", "c", "a", "r", "e">>, <<"4", "0", "1", "k">>, <<"b", "e", "n", "e", "f", "i", "t", "s">>,
                        <<"p", "a", "i", "d", " ", "l", "e", "a", "v", "e">>, <<"p", "e", "n", "s", "i", "o", "n">> >>

\* Variant: the meta tag's content is appended without looking at it.
SelectorAppends_unchecked_meta(doc, sel) ==
    IF sel.attr # None
    THEN LET tag == find_attrs(doc, sel.tag, sel.attr)
         IN  IF tag # 0 THEN <<doc[tag].content>> ELSE <<>>
    ELSE LET tag == find(doc, sel.tag, sel.class, sel.id)
         IN  IF tag # 0 THEN <<get_text(doc[tag])>> ELSE <<>>

\* One pass of the selector loop body: what the selector appends.
SelectorAppends(doc, sel) ==
    IF sel.attr # None
    THEN LET tag == find_attrs(doc, sel.tag, sel.attr)
         IN  IF tag # 0 /\ doc[tag].hasContent /\ doc[tag].content # <<>>
             THEN <<doc[tag].content>> ELSE <<>>
    ELSE LET tag == find(doc, sel.tag, sel.class, sel.id)
         IN  IF tag # 0 THEN <<get_text(doc[tag])>> ELSE <<>>

RECURSIVE SelectorLoop(_, _, _)
SelectorLoop(doc, i, job_text_parts) ==
    IF i > Len(selectors) THEN job_text_parts
    ELSE SelectorLoop(doc, i + 1, job_text_parts \o SelectorAppends(doc, selectors[i]))

\* The whole-page fallback list.
FallbackParts(doc) ==
    LET all_text == find_all(doc, {"p", "div", "span"})
    IN  [i \in DOMAIN all_text |-> get_text(all_text[i])]

\* job_text_parts as it stands before the join.
JobTextParts(doc) ==
    LET job_text_parts == SelectorLoop(doc, 1, <<>>)
    IN  IF job_text_parts = <<>> THEN FallbackParts(doc) ELSE job_text_parts

FinalText(job_text_parts) == strip(join(<<" ">>, job_text_parts))

\* Variant: the keywords are looked for in the text already cut.
IsRemote_truncated(final_text) ==
    AnyIn(lower(Slice(final_text, MaxTextLen)), remote_keywords)

IsRemote(final_text) == AnyIn(lower(final_text), remote_keywords)

HasBenefits(final_text) == AnyIn(lower(final_text), benefits_keywords)

\* Variant: the last characters are kept instead of the first.
Truncate_tail(final_text) ==
    SubSeq(final_text,
           IF Len(final_text) < MaxTextLen THEN 1 ELSE Len(final_text) - MaxTextLen + 1,
           Len(final_text))

Truncate(final_text) == Slice(final_text, MaxTextLen)

\* The locals of extract_job_text at its return; the function returns
\* (job_text, is_remote, has_benefits).
extract_job_text(doc) ==
    LET matched        == SelectorLoop(doc, 1, <<>>)
        job_text_parts == JobTextParts(doc)
        final_text     == FinalText(job_text_parts)
    IN  [called         |-> TRUE,
         fallback       |-> (matched = <<>>),
         job_text_parts |-> job_text_parts,
         final_text     |-> final_text,
         job_text       |-> Truncate(final_text),
         is_remote      |-> IsRemote(final_text),
         has_benefits   |-> HasBenefits(final_text)]

NoEv == [kind |-> "none"]

NoPred == [called |-> FALSE, text |-> <<>>, prediction |-> 0, percent |-> 0]

NoExt ==
    [called |-> FALSE, fallback |-> FALSE, job_text_parts |-> <<>>, final_text |-> <<>>,
     job_text |-> <<>>, is_remote |-> FALSE, has_benefits |-> FALSE]

----------------------------------------------------------------------------
(* The documents the extractor is exercised on. *)

Fill(n) == [i \in 1..n |-> "x"]

ExtractElements == {
    Elem("div", {"jobDescriptionText"}, None,
         <<"T", "h", "i", "s", " ", "i", "s", " ", "a", " ", "r", "e", "m", "o", "t", "e", " ", "p", "o", "s", "i", "t", "i", "o", "n", " ", "w", "i", "t", "h", " ", "f", "u", "l", "l", " ", "h", "e", "a", "l", "t", "h", " ", "i", "n", "s", "u", "r", "a", "n", "c", "e">>),
    Elem("div", {"jobDescriptionText", "card"}, None, <<>>),
    Elem("div", {"description"}, None, <<"O", "n", "-", "s", "i", "t", "e", " ", "o", "n", "l", "y", ",", " ", "n", "o", " ", "b", "e", "n", "e", "f", "i", "t", "s">>),
    Elem("div", {"description"}, "main", <<"P", "e", "n", "s", "i", "o", "n", " ", "p", "l", "a", "n">>),
    Elem("section", {"job-desc"}, None, <<" ", " ", "H", "y", "b", "r", "i", "d", " ", "r", "o", "l", "e", " ", "\t">>),
    Elem("div", {}, "jobDetails", Fill(MaxTextLen) \o <<" ", "t", "e", "l", "e", "c", "o", "m", "m", "u", "t", "e", " ", "4", "0", "1", "K">>),
    Elem("div", {"box"}, "jobDetails", <<"w", "o", "r", "k", " ", "f", "r", "o", "m", " ", "h", "o", "m", "e">>),
    Meta("description", TRUE, <<"P", "a", "i", "d", " ", "L", "e", "a", "v", "e", " ", "a", "n", "d", " ", "h", "e", "a", "l", "t", "h", "c", "a", "r", "e", " ">>),
    Meta("description", TRUE, <<>>),
    Meta("keywords", TRUE, <<"r", "e", "m", "o", "t", "e">>),
    Elem("p", {}, None, Fill(MaxTextLen)),
    Elem("span", {}, None, Fill(MaxTextLen - 3) \o <<"r", "e", "m", "o", "t", "e">>),
    Elem("h1", {}, None, <<"I", "n", "s", "u", "r", "a", "n", "c", "e">>)
}

RECURSIVE DocsOfLen(_, _)
DocsOfLen(elements, n) ==
    IF n = 0 THEN {<<>>}
    ELSE {Append(d, e) : d \in DocsOfLen(elements, n - 1), e \in elements}

DocsUpTo(elements, n) == UNION {DocsOfLen(elements, k) : k \in 0..n}

ExtractDocs == DocsUpTo(ExtractElements, MaxElems)

----------------------------------------------------------------------------
(* is_valid_url and is_valid_job_url *)

\* The URL strings typed into the text input, and those validators.url accepts.
Urls == {"", "example.com/job", "htp:/example", "https://example.com/job"}

WellFormedUrls == {"https://example.com/job"}

\* validators.url(url) is True
is_valid_url(url) == url \in WellFormedUrls

keywords == << <<"j", "o", "b">>, <<"c", "a", "r", "e", "e", "r", "s">>, <<"a", "p", "p", "l", "y">>, <<"r", "e", "c", "r", "u", "i", "t">>, <<"p", "o", "s", "i", "t", "i", "o", "n">>, <<"h", "i", "r", "i", "n", "g">>,
               <<"d", "e", "s", "c", "r", "i", "p", "t", "i", "o", "n">>, <<"r", "e", "s", "p", "o", "n", "s", "i", "b", "i", "l", "i", "t", "i", "e", "s">>, <<"q", "u", "a", "l", "i", "f", "i", "c", "a", "t", "i", "o", "n", "s">> >>

\* Variant: only a server error counts as unreachable.
Unreachable_server_errors_only(res) == res.status_code >= 500

\* res.status_code != 200
Unreachable(res) == res.status_code # StatusOK

\* A message is the sequence of the pieces of its f-string.
\* What requests.get does is the environment's choice: it returns a response
\* (after redirects) whose body parses to a document, or raises a
\* RequestException whose str() is res.error.
is_valid_job_url(res) ==
    IF res.kind = "exception"
    THEN [valid |-> FALSE, message |-> <<"Error fetching URL: ", res.error>>, soup |-> NoSoup]
    ELSE IF Unreachable(res)
    THEN [valid |-> FALSE, message |-> <<"URL is not reachable">>, soup |-> NoSoup]
    ELSE LET text == lower(soup_get_text(res.body))
         IN  IF AnyIn(text, keywords)
             THEN [valid |-> TRUE, message |-> <<"URL is reachable and job-related">>,
                   soup |-> res.body]
             ELSE [valid |-> FALSE,
                   message |-> <<"URL reachable but doesn't look like a job page">>,
                   soup |-> res.body]

----------------------------------------------------------------------------
(* The inputs of the session flow. *)

Names == { <<>>, <<" ">>, <<"A", "l">> }

Emails == { <<>>, <<"n", "o", "t", "-", "a", "n", "-", "e", "m", "a", "i", "l">>, <<"a", "@", "b", ".", "c", "o">>, <<"a", "@", "b">>, <<"@", "b", ".", "c", "o">>, <<"a", "@", ".", "c", "o">>,
            <<"a", "@", "@", "b", ".", "c", "o">>, <<"a", "@", "b", ".", "c", "o", "@", "e", "v", "i", "l">> }

FlowElements == {
    Elem("p", {}, None, <<"A", "p", "p", "l", "y">> \o Fill(MinContentLen - 5)),
    Elem("div", {"description"}, None, <<"j", "o", "b">> \o Fill(MinContentLen - 4)),
    Elem("span", {}, None, <<"W", "e", "l", "c", "o", "m", "e", " ", "t", "o", " ", "o", "u", "r", " ", "h", "o", "m", "e", "p", "a", "g", "e", " ">> \o Fill(MinContentLen)),
    Elem("h1", {}, None, <<"N", "o", "w", " ", "H", "i", "r", "i", "n", "g">>)
}

FlowDocs == DocsUpTo(FlowElements, MaxElems)

\* No request was made.
NoRes == [kind |-> "none"]

Response(status_code, body) ==
    [kind |-> "response", status_code |-> status_code, body |-> body]

Raised(exception, error) ==
    [kind |-> "exception", exception |-> exception, error |-> error]

Responses ==
    {Response(StatusOK, d) : d \in FlowDocs}
    \cup {Response(c, d) : c \in {404, 500}, d \in DocsUpTo(FlowElements, 1)}
    \cup {Raised("ConnectionError", "Name or service not known"),
          Raised("ConnectionError", "Connection refused"),
          Raised("Timeout", ""),
          Raised("SSLError", "certificate verify failed")}

\* model.predict(...)[0] and the percentage made of model.predict_proba(...)[0][prediction]
Predictions == {0, 1}
Percentages == {50, 100}

----------------------------------------------------------------------------
(* The session flow: one action is one run of the script on a widget event. *)

\* A displayed element: the st function that drew it and the pieces of its
\* text (the pictograph that opens some of the texts is left out).
Message(level, message) == [level |-> level, message |-> message]

\* dict lookup
Get(dict, key) == dict[CHOOSE i \in DOMAIN dict : dict[i][1] = key][2]
Has(dict, key) == \E i \in DOMAIN dict : dict[i][1] = key

\* re.match(r"[^@]+@[^@]+\.[^@]+", email): the pattern is matched from the start
\* of the string on, and the match may end before the string does.
NoAt(s, from, to) == \A i \in from..to : s[i] # "@"

re_match(email) ==
    \E a, b, c \in 1..Len(email) :
        /\ NoAt(email, 1, a)
        /\ a + 1 < b /\ email[a + 1] = "@" /\ NoAt(email, a + 2, b)
        /\ b + 1 < c /\ email[b + 1] = "." /\ NoAt(email, b + 2, c)

Init ==
    /\ page = "user_details"
    /\ user_data = <<>>
    /\ ev = NoEv
    /\ out = <<>>
    /\ calls = <<>>
    /\ soup = NoSoup
    /\ ext = NoExt
    /\ pred = NoPred

\* Variant: the form is drawn on both pages.
FormShown_on_every_page == TRUE

\* user_details is the page the script draws.
FormShown == page = "user_details"

\* The user_form is submitted with "Proceed".
SubmitForm(name, email) ==
    /\ FormShown
    /\ ev' = [kind |-> "submit", name |-> name, email |-> email]
    /\ calls' = <<>>
    /\ soup' = NoSoup
    /\ ext' = NoExt
    /\ pred' = NoPred
    /\ IF name = <<>> \/ email = <<>>
       THEN /\ out' = <<Message("error", <<"Please fill in all fields.">>)>>
            /\ UNCHANGED <<page, user_data>>
       ELSE IF ~re_match(email)
       THEN /\ out' = <<Message("error", <<"Please enter a valid email address.">>)>>
            /\ UNCHANGED <<page, user_data>>
       ELSE /\ user_data' = << <<"name", name>>, <<"email", email>> >>
            /\ page' = "job_analysis"
            /\ out' = <<>>

\* The classifier branch: model.predict and model.predict_proba answer, and
\* the verdict and the two attribute lines are written.
Classified(res, r, e) ==
    {[res   |-> res,
      out   |-> <<Message("info", r.message),
                  IF prediction = 1
                  THEN Message("error", <<"This job post is likely FAKE with ", ToString(percent), "% confidence.">>)
                  ELSE Message("success", <<"This job post is likely GENUINE with ", ToString(percent), "% confidence.">>),
                  Message("markdown", <<"Additional Details">>),
                  Message("write", <<"Work Type: ", IF e.is_remote THEN "Remote/Hybrid" ELSE "On-site">>),
                  Message("write", <<"Benefits Offered: ", IF e.has_benefits THEN "Yes" ELSE "No">>)>>,
      calls |-> <<"is_valid_url", "is_valid_job_url", "extract_job_text",
                  "model.predict", "model.predict_proba">>,
      soup  |-> r.soup,
      ext   |-> e,
      pred  |-> [called |-> TRUE, text |-> e.job_text,
                 prediction |-> prediction, percent |-> percent]] : prediction \in Predictions, percent \in Percentages}

\* Variant: the extractor runs on every document, the keyword gate only advising.
Proceeds_any_document(r) == r.soup # NoSoup

\* valid and soup
Proceeds(r) == r.valid /\ r.soup # NoSoup

\* Variant: a text of exactly the minimum length is refused too.
TooThin_inclusive(job_text) == Len(job_text) <= MinContentLen

\* len(job_text) < 50
TooThin(job_text) == Len(job_text) < MinContentLen

\* The branch taken once the URL is well formed and requests.get has answered res.
Fetched(res) ==
    LET r == is_valid_job_url(res)
    IN  IF Proceeds(r)
        THEN LET e == extract_job_text(r.soup)
             IN  IF TooThin(e.job_text)
                 THEN {[res   |-> res,
                        out   |-> <<Message("info", r.message),
                                    Message("warning", <<"Not enough content extracted from the page.">>)>>,
                        calls |-> <<"is_valid_url", "is_valid_job_url", "extract_job_text">>,
                        soup  |-> r.soup,
                        ext   |-> e,
                        pred  |-> NoPred]}
                 ELSE Classified(res, r, e)
        ELSE {[res   |-> res,
               out   |-> <<Message("info", r.message)>>,
               calls |-> <<"is_valid_url", "is_valid_job_url">>,
               soup  |-> NoSoup,
               ext   |-> NoExt,
               pred  |-> NoPred]}

\* Variant: a malformed URL is dropped without a word.
InvalidUrlOut_silent == <<>>

\* What is displayed for a URL that is not well formed.
InvalidUrlOut ==
    <<Message("warning", <<"Please enter a valid URL starting with http or https and in correct format.">>)>>

\* The runs the "Analyze Job" branch can take on url: what it displays and
\* invokes, for each answer of the network and of the classifier.
AnalyzeRuns(url) ==
    IF ~is_valid_url(url)
    THEN {[res   |-> NoRes,
           out   |-> InvalidUrlOut,
           calls |-> <<"is_valid_url">>,
           soup  |-> NoSoup,
           ext   |-> NoExt,
           pred  |-> NoPred]}
    ELSE UNION {Fetched(res) : res \in Responses}

\* "Analyze Job" is pressed with url in the text input.
AnalyzeJob(url) ==
    /\ page = "job_analysis"
    /\ Has(user_data, "name")
    /\ \E run \in AnalyzeRuns(url) :
           /\ ev' = [kind |-> "analyze", url |-> url, res |-> run.res]
           /\ out' = run.out
           /\ calls' = run.calls
           /\ soup' = run.soup
           /\ ext' = run.ext
           /\ pred' = run.pred
    /\ UNCHANGED <<page, user_data>>

\* Any other widget event (typing into an input) runs the script with no
\* button pressed: the page is drawn again and nothing else happens.
Rerun ==
    /\ ev' = [kind |-> "rerun"]
    /\ out' = <<>>
    /\ calls' = <<>>
    /\ soup' = NoSoup
    /\ ext' = NoExt
    /\ pred' = NoPred
    /\ UNCHANGED <<page, user_data>>

Next ==
    \/ \E name \in Names, email \in Emails : SubmitForm(name, email)
    \/ \E url \in Urls : AnalyzeJob(url)
    \/ Rerun

Spec == Init /\ [][Next]_vars

----------------------------------------------------------------------------
(* The extractor on its own: a document is drawn, the function is applied. *)

InitExtract ==
    /\ page = "user_details"
    /\ user_data = <<>>
    /\ ev = NoEv
    /\ out = <<>>
    /\ calls = <<>>
    /\ soup \in ExtractDocs
    /\ ext = NoExt
    /\ pred = NoPred

Extract ==
    /\ ~ext.called
    /\ ext' = extract_job_text(soup)
    /\ calls' = Append(calls, "extract_job_text")
    /\ UNCHANGED <<page, user_data, ev, out, soup, pred>>

NextExtract == Extract

SpecExtract == InitExtract /\ [][NextExtract]_vars

----------------------------------------------------------------------------
(* Properties of the session flow (checked under Spec). *)

\* A message is the sequence of the pieces of its f-string; it is empty when
\* every piece is.
NonEmptyMessage(message) == \E i \in DOMAIN message : message[i] # ""

Invoked(fn) == \E i \in DOMAIN calls : calls[i] = fn

Shown(levels) ==
    \E i \in DOMAIN out : out[i].level \in levels /\ NonEmptyMessage(out[i].message)

\* The run displayed a verdict of the classifier.
Rendered ==
    /\ pred.called
    /\ \E i \in DOMAIN out :
           out[i] = IF pred.prediction = 1
                    THEN Message("error", <<"This job post is likely FAKE with ", ToString(pred.percent), "% confidence.">>)
                    ELSE Message("success", <<"This job post is likely GENUINE with ", ToString(pred.percent), "% confidence.">>)

\* An address of the shape local@domain.tld: one "@", then a "." with
\* something on each side of it, and nothing else.
IsLocalAtDomainTld(email) ==
    \E a, b \in 1..Len(email) :
        /\ NoAt(email, 1, a)
        /\ a + 1 < b /\ email[a + 1] = "@" /\ NoAt(email, a + 2, b)
        /\ b + 1 < Len(email) /\ email[b + 1] = "." /\ NoAt(email, b + 2, Len(email))

\* C1: whenever current_page is job_analysis the stored user has a non-empty
\* name and an email of the shape local@domain.tld.
C1_UserValidOnAnalysisPage ==
    page = "job_analysis" =>
        /\ Has(user_data, "name") /\ Get(user_data, "name") # <<>>
        /\ Has(user_data, "email") /\ IsLocalAtDomainTld(Get(user_data, "email"))

\* The last run analysed a well-formed URL whose page came back with status
\* 200 and none of the job keywords in its text.
FetchedNonJobPage ==
    /\ ev.kind = "analyze"
    /\ is_valid_url(ev.url)
    /\ ev.res.kind = "response"
    /\ ev.res.status_code = StatusOK
    /\ \A k \in DOMAIN keywords : ~Contains(lower(soup_get_text(ev.res.body)), keywords[k])

\* C2 as stated: on a page fetched with status 200 in which the validator
\* finds no keyword, the extractor is still invoked, and the classifier too
\* when the extracted text has at least 50 characters.
C2_ValidatorAdvisory ==
    FetchedNonJobPage =>
        /\ Invoked("extract_job_text")
        /\ (ext.called /\ Len(ext.job_text) >= MinContentLen => pred.called)

\* C2 as amended: on such a page the run shows the validator's message and
\* stops; neither the extractor nor the classifier is invoked.
C2_ValidatorGates ==
    FetchedNonJobPage =>
        /\ out = <<Message("info", <<"URL reachable but doesn't look like a job page">>)>>
        /\ ~Invoked("extract_job_text") /\ ~ext.called
        /\ ~Invoked("model.predict") /\ ~pred.called

\* A page long enough to be classified, without a job keyword, was analysed.
C2_Witness ==
    /\ FetchedNonJobPage
    /\ Len(FinalText(JobTextParts(ev.res.body))) >= MinContentLen
    /\ Len(out) = 1

\* C3: in a run that reaches the extractor, a returned text shorter than 50
\* brings the "not enough content" warning and no call of the classifier; a
\* text of 50 or more is given to the classifier and its verdict is shown.
C3_MinimumContentGate ==
    (ev.kind = "analyze" /\ Invoked("extract_job_text")) =>
        /\ ext.called
        /\ IF Len(ext.job_text) < MinContentLen
           THEN /\ \E i \in DOMAIN out :
                       out[i] = Message("warning", <<"Not enough content extracted from the page.">>)
                /\ ~pred.called /\ ~Invoked("model.predict") /\ ~Invoked("model.predict_proba")
                /\ ~Shown({"success", "error"})
           ELSE /\ pred.called /\ pred.text = ext.job_text
                /\ Invoked("model.predict") /\ Invoked("model.predict_proba")
                /\ Rendered

\* The extractor returned 49 characters and the run stopped at the warning.
C3_Witness ==
    /\ ev.kind = "analyze" /\ ext.called
    /\ Len(ext.job_text) = MinContentLen - 1
    /\ ~pred.called
    /\ Len(out) = 2 /\ out[2].level = "warning"

\* The last run analysed a well-formed URL and the request failed: a status
\* other than 200, or a transport error.
FetchFailed ==
    /\ ev.kind = "analyze"
    /\ is_valid_url(ev.url)
    /\ \/ ev.res.kind = "exception"
       \/ ev.res.kind = "response" /\ ev.res.status_code # StatusOK

\* C5: a failed request becomes a value (not reachable, a non-empty message,
\* no document); the run shows that message and stops, with neither the
\* extractor nor the classifier invoked.
C5_FetchFailureMapping ==
    FetchFailed =>
        /\ Len(out) = 1 /\ out[1].level = "info" /\ NonEmptyMessage(out[1].message)
        /\ out[1].message = is_valid_job_url(ev.res).message
        /\ ~is_valid_job_url(ev.res).valid
        /\ is_valid_job_url(ev.res).soup = NoSoup
        /\ soup = NoSoup
        /\ ~Invoked("extract_job_text") /\ ~ext.called
        /\ ~Invoked("model.predict") /\ ~pred.called

\* A 404 answer whose body reads like a job page was analysed.
C5_Witness ==
    /\ FetchFailed
    /\ ev.res.kind = "response"
    /\ \E k \in DOMAIN keywords : Contains(lower(soup_get_text(ev.res.body)), keywords[k])
    /\ Len(out) = 1

\* C6: once current_page is job_analysis no step changes it or the stored user.
C6_AnalysisPageIsFinal ==
    [][page = "job_analysis" => page' = "job_analysis" /\ user_data' = user_data]_vars

\* Every kind of Analyze run has happened on the job_analysis page: here, a
\* classified page.
C6_Witness ==
    /\ page = "job_analysis"
    /\ ev.kind = "analyze"
    /\ pred.called

\* C7: a form submission that does not advance shows an error, and an
\* Analyze run that does not end in a displayed verdict shows at least one
\* warning, info or error message.
C7_NoSilentFailure ==
    /\ (ev.kind = "submit" /\ page # "job_analysis") => Shown({"error"})
    /\ (ev.kind = "analyze" /\ ~Rendered) => Shown({"error", "warning", "info"})

\* A malformed URL was refused.
C7_Witness ==
    /\ ev.kind = "analyze"
    /\ ~is_valid_url(ev.url)
    /\ ~Rendered
    /\ Len(out) = 1

----------------------------------------------------------------------------
(* Properties of extract_job_text (checked under SpecExtract). *)

\* The accumulated text: the fragments joined by one space, then trimmed.
AccumulatedText == strip(join(<<" ">>, ext.job_text_parts))

IsPrefix(p, t) == Len(p) <= Len(t) /\ \A i \in 1..Len(p) : p[i] = t[i]

RemoteWords == { <<"r", "e", "m", "o", "t", "e">>, <<"w", "o", "r", "k", " ", "f", "r", "o", "m", " ", "h", "o", "m", "e">>, <<"h", "y", "b", "r", "i", "d">>, <<"t", "e", "l", "e", "c", "o", "m", "m", "u", "t", "e">> }

BenefitsWords == { <<"i", "n", "s", "u", "r", "a", "n", "c", "e">>, <<"h", "e", "a", "l", "t", "h", "c", "a", "r", "e">>, <<"4", "0", "1", "k">>, <<"b", "e", "n", "e", "f", "i", "t", "s">>,
                   <<"p", "a", "i", "d", " ", "l", "e", "a", "v", "e">>, <<"p", "e", "n", "s", "i", "o", "n">> }

Mentions(text, words) == \E w \in words : Contains(lower(text), w)

RemotePhrase == <<"T", "h", "i", "s", " ", "i", "s", " ", "a", " ", "r", "e", "m", "o", "t", "e", " ", "p", "o", "s", "i", "t", "i", "o", "n", " ", "w", "i", "t", "h", " ", "f", "u", "l", "l", " ", "h", "e", "a", "l", "t", "h", " ", "i", "n", "s", "u", "r", "a", "n", "c", "e">>

OnSitePhrase == <<"O", "n", "-", "s", "i", "t", "e", " ", "o", "n", "l", "y", ",", " ", "n", "o", " ", "b", "e", "n", "e", "f", "i", "t", "s">>

\* text holds phrase, and around it no wording of remote work or of benefits.
HoldsOnly(text, phrase) ==
    \E i \in 1..(Len(text) - Len(phrase) + 1) :
        /\ SubSeq(text, i, i + Len(phrase) - 1) = phrase
        /\ ~Mentions(SubSeq(text, 1, i - 1), RemoteWords \cup BenefitsWords)
        /\ ~Mentions(SubSeq(text, i + Len(phrase), Len(text)), RemoteWords \cup BenefitsWords)

\* C4: a final text containing "This is a remote position with full health
\* insurance" gives is_remote and has_benefits; one containing "On-site only,
\* no benefits" and no other remote or benefits wording gives neither.
C4_AttributeDetection ==
    ext.called =>
        /\ Contains(ext.final_text, RemotePhrase) => ext.is_remote /\ ext.has_benefits
        /\ HoldsOnly(ext.final_text, OnSitePhrase) => ~ext.is_remote /\ ~ext.has_benefits

\* C8: the returned text is a prefix of the accumulated text; it has exactly
\* 3000 characters when the accumulated text is longer than that, and is the
\* accumulated text otherwise.
C8_Truncation ==
    ext.called =>
        /\ IsPrefix(ext.job_text, AccumulatedText)
        /\ IF Len(AccumulatedText) > MaxTextLen
           THEN Len(ext.job_text) = MaxTextLen
           ELSE ext.job_text = AccumulatedText

\* Two fragments were joined into more than 3000 characters and cut.
C8_Witness ==
    /\ ext.called
    /\ Len(ext.job_text_parts) > 1
    /\ Len(AccumulatedText) > MaxTextLen
    /\ Len(ext.job_text) = MaxTextLen

\* The element the CSS selector of rank k (div.jobDescriptionText,
\* div.description, section.job-desc, div#jobDetails, meta[name=description])
\* matches.
CssMatches(el, k) ==
    CASE k = 1 -> el.tag = "div" /\ "jobDescriptionText" \in el.class
      [] k = 2 -> el.tag = "div" /\ "description" \in el.class
      [] k = 3 -> el.tag = "section" /\ "job-desc" \in el.class
      [] k = 4 -> el.tag = "div" /\ el.id = "jobDetails"
      [] k = 5 -> el.tag = "meta" /\ el.name = "description"

\* What the loop's lookup of rank k picks up: the class selectors pass over
\* an element that has an id attribute, and the id selector over one that
\* has a class attribute.
Picks(el, k) ==
    /\ CssMatches(el, k)
    /\ k \in {1, 2, 3} => el.id = None
    /\ k = 4 => el.class = {}

FirstOf(doc, k, M(_, _)) ==
    CHOOSE i \in DOMAIN doc : M(doc[i], k) /\ \A j \in 1..(i - 1) : ~M(doc[j], k)

FragmentOf(el, k) == IF k = 5 THEN el.content ELSE strip(el.text)

\* The text of every p, div and span, in document order.
WholePage(doc) ==
    LET blocks == SelectSeq(doc, LAMBDA el : el.tag \in {"p", "div", "span"})
    IN  [i \in DOMAIN blocks |-> strip(blocks[i].text)]

\* C9 as stated: the accumulator holds one fragment per matching selector,
\* in priority order, and the whole-page fallback is used exactly when no
\* selector matches anything in the document.
C9_SelectorsThenFallback ==
    ext.called =>
        LET matching == {k \in DOMAIN selectors : \E i \in DOMAIN soup : CssMatches(soup[i], k)}
            Fragment(k) == IF k \in matching
                           THEN <<FragmentOf(soup[FirstOf(soup, k, CssMatches)], k)>>
                           ELSE <<>>
        IN  /\ ext.fallback <=> matching = {}
            /\ ext.job_text_parts =
                   IF matching = {} THEN WholePage(soup)
                   ELSE Fragment(1) \o Fragment(2) \o Fragment(3) \o Fragment(4) \o Fragment(5)

\* C9 as amended: a selector contributes when its lookup picks an element
\* up (a div or section with the class and no id attribute, a div with the
\* id and no class attribute, the first meta named description) and, for
\* the meta tag, when that element's content is not empty; the accumulator
\* holds one fragment per contributing selector, in priority order, and the
\* whole-page fallback is used exactly when no selector contributes.
C9_ContributingSelectorsThenFallback ==
    ext.called =>
        LET picking == {k \in DOMAIN selectors : \E i \in DOMAIN soup : Picks(soup[i], k)}
            Picked(k) == soup[FirstOf(soup, k, Picks)]
            contributing == {k \in picking :
                                 k = 5 => Picked(k).hasContent /\ Picked(k).content # <<>>}
            Fragment(k) == IF k \in contributing THEN <<FragmentOf(Picked(k), k)>> ELSE <<>>
        IN  /\ ext.fallback <=> contributing = {}
            /\ ext.job_text_parts =
                   IF contributing = {} THEN WholePage(soup)
                   ELSE Fragment(1) \o Fragment(2) \o Fragment(3) \o Fragment(4) \o Fragment(5)

\* The fallback ran on a document holding a meta description without content.
C9_Witness ==
    /\ ext.called
    /\ ext.fallback
    /\ \E i \in DOMAIN soup : CssMatches(soup[i], 5) /\ soup[i].content = <<>>
    /\ ext.job_text_parts # <<>>

\* C10: each flag is set exactly when one of its keywords occurs in the
\* lower-cased accumulated text, cut or not.
C10_FlagsFromUntruncatedText ==
    ext.called =>
        /\ ext.is_remote <=> Mentions(AccumulatedText, RemoteWords)
        /\ ext.has_benefits <=> Mentions(AccumulatedText, BenefitsWords)

\* Both flags were set by keywords that lie beyond the cut.
C10_Witness ==
    /\ ext.called
    /\ Len(AccumulatedText) > MaxTextLen
    /\ ext.is_remote /\ ~Mentions(ext.job_text, RemoteWords)
    /\ ext.has_benefits /\ ~Mentions(ext.job_text, BenefitsWords)

====
